---------------------------- MODULE Spec2Model ----------------------------
(***************************************************************************)
(* Model of signos/tauri-app/src-tauri/src/lib.rs: the one-shot startup    *)
(* sequence of `run()`: plugin registration, the macOS-only panel setup    *)
(* and the placement of the main window from the size of the monitor the   *)
(* window sits on.                                                         *)
(*                                                                         *)
(* Pixel quantities are u32/i32 in the source.  They are kept at their     *)
(* 32-bit width here as two 16-bit limbs (value = hi * 2^16 + lo), because *)
(* TLC's integers are themselves 32-bit and cannot hold 2^32, nor the      *)
(* unwrapped result of an overflowing subtraction.                         *)
(***************************************************************************)
EXTENDS Integers, Sequences, FiniteSets, TLC

VARIABLES
    macos,              \* cfg(target_os = "macos") of the build
    overflowChecks,     \* build profile: arithmetic overflow panics (debug) or wraps (release)
    primaryMonitor,     \* size of the primary display (environment)
    pc,                 \* position of run() in its statement sequence
    plugins,            \* plugins registered on the builder
    calls,              \* log of the collaborator calls made so far, in order
    activationPolicy,   \* application activation policy
    windowKind,         \* "window" or "panel"
    panelConfig,        \* configuration of the panel class ({} while a plain window)
    panelLevel,         \* level set on the panel ({} when never set)
    styleMask,          \* style mask set on the panel ({} when never set)
    collectionBehavior, \* collection behavior flags set on the panel
    monitor,            \* result of window.current_monitor()
    arith,              \* what the casts and subtractions of lines 72-73 did
    xy,                 \* the locals x, y ({} until computed)
    position,           \* window position ({} = the configured one, never moved)
    error,              \* the startup error that occurred, "none" when none
    outcome             \* "starting", "running" (event loop started) or "failed"

vars == <<macos, overflowChecks, primaryMonitor, pc, plugins, calls,
          activationPolicy, windowKind, panelConfig, panelLevel, styleMask,
          collectionBehavior, monitor, arith, xy, position, error, outcome>>

----------------------------------------------------------------------------
(* 32-bit integers as two limbs *)

Limb == 2^16
HalfLimb == 2^15

\* The integer n (|n| < 2^31) as a wide number.
W(n) == [hi |-> n \div Limb, lo |-> n % Limb]

WSub(a, b) ==
    LET l == a.lo - b.lo
    IN  IF l < 0 THEN [hi |-> a.hi - b.hi - 1, lo |-> l + Limb]
                 ELSE [hi |-> a.hi - b.hi, lo |-> l]

WAdd(a, b) ==
    LET l == a.lo + b.lo
    IN  IF l >= Limb THEN [hi |-> a.hi + b.hi + 1, lo |-> l - Limb]
                     ELSE [hi |-> a.hi + b.hi, lo |-> l]

WLeq(a, b) == a.hi < b.hi \/ (a.hi = b.hi /\ a.lo <= b.lo)

IsU32(a) == 0 <= a.hi /\ a.hi < Limb /\ 0 <= a.lo /\ a.lo < Limb
InI32(a) == -HalfLimb <= a.hi /\ a.hi < HalfLimb

I32Max == [hi |-> HalfLimb - 1, lo |-> Limb - 1]

\* Two's complement reduction into the i32 range.
WrapI32(a) == [hi |-> ((a.hi + HalfLimb) % Limb) - HalfLimb, lo |-> a.lo]

\* Variant: `u as i16 as i32`, a cast through a narrower type.
AsI32Narrow(u) == [hi |-> IF u.lo >= HalfLimb THEN -1 ELSE 0, lo |-> u.lo]

\* `u as i32` for a u32 u: the bit pattern reinterpreted, never a panic.
AsI32(u) == WrapI32(u)

\* i32 subtraction and addition: the wrapped value and whether it overflowed.
I32Sub(a, b) ==
    LET e == WSub(a, b) IN [val |-> WrapI32(e), ovf |-> ~InI32(e)]

I32Add(a, b) ==
    LET e == WAdd(a, b) IN [val |-> WrapI32(e), ovf |-> ~InI32(e)]

----------------------------------------------------------------------------
(* The placement calculation, lines 63-73 *)

window_width == 290
window_height == 380

\* Variant: the placement with negative coordinates clamped to 0.
PlacementClamped(w, h) ==
    LET x1 == I32Sub(AsI32(w), W(window_width))
        x2 == I32Sub(x1.val, W(200))
        y1 == I32Sub(AsI32(h), W(window_height))
        y2 == I32Add(y1.val, W(30))
        cl(v) == IF v.hi < 0 THEN W(0) ELSE v
    IN  [x |-> cl(x2.val), y |-> cl(y2.val),
         cast_wrapped |-> ~InI32(w) \/ ~InI32(h),
         overflowed |-> x1.ovf \/ x2.ovf \/ y1.ovf \/ y2.ovf]

\* x = screen_size.width as i32 - window_width - 200
\* y = screen_size.height as i32 - window_height + 30
Placement(w, h) ==
    LET x1 == I32Sub(AsI32(w), W(window_width))
        x2 == I32Sub(x1.val, W(200))
        y1 == I32Sub(AsI32(h), W(window_height))
        y2 == I32Add(y1.val, W(30))
    IN  [x |-> x2.val, y |-> y2.val,
         cast_wrapped |-> ~InI32(w) \/ ~InI32(h),
         overflowed |-> x1.ovf \/ x2.ovf \/ y1.ovf \/ y2.ovf]

----------------------------------------------------------------------------
(* Environment: the sizes a monitor may report *)

SizeSpread == 1

PixelAnchors ==
    { W(0), W(100), W(349), W(489), W(768), W(1080), W(1366), W(1920),
      [hi |-> HalfLimb - 1, lo |-> Limb - 1],
      [hi |-> HalfLimb, lo |-> 289], [hi |-> HalfLimb, lo |-> 349],
      [hi |-> HalfLimb, lo |-> 379], [hi |-> HalfLimb, lo |-> 489],
      [hi |-> Limb - 1, lo |-> Limb - 1 - SizeSpread] }

Pixels ==
    { p \in { WAdd(a, W(d)) : a \in PixelAnchors, d \in 0..SizeSpread } : IsU32(p) }

Sizes == [width : Pixels, height : Pixels]

PrimarySizes ==
    { [width |-> W(1920), height |-> W(1080)],
      [width |-> W(1366), height |-> W(768)] }

\* What window.current_monitor() can return: Err, Ok(None), Ok(Some(m)).
MonitorResults ==
    { [tag |-> "err", size |-> {}], [tag |-> "none", size |-> {}] }
    \cup { [tag |-> "some", size |-> {s}] : s \in Sizes }

NotQueried == [tag |-> "pending", size |-> {}]

TheSize(m) == CHOOSE s \in m.size : TRUE

----------------------------------------------------------------------------
(* Control flow of run() *)

\* Variant: the activation policy set on every platform.
SetupEntryAnyPlatform == "set_activation_policy"

\* Entry of the setup closure: the activation policy only on macOS (31-35).
SetupEntry == IF macos THEN "set_activation_policy" ELSE "get_webview_window"

\* After the three plugins: the nspanel plugin only on macOS (lines 23-27).
AfterPlugins == IF macos THEN "nspanel_init" ELSE SetupEntry

\* Variant: the panel block left out, the placement directly after the lookup.
AfterWindowPlacementFirst(found) ==
    IF ~found THEN "aborted" ELSE "current_monitor"

\* get_webview_window("main").unwrap() (line 37), then the panel block only
\* on macOS (lines 40-59).
AfterWindow(found) ==
    IF ~found THEN "aborted"
    ELSE IF macos THEN "to_panel" ELSE "current_monitor"

\* Variant: a failed conversion falls back to placing a normal window.
AfterToPanelFallback(ok) == IF ok THEN "set_level" ELSE "current_monitor"

\* window.to_panel::<SignosPanel>().unwrap() (line 42).
AfterToPanel(ok) == IF ok THEN "set_level" ELSE "aborted"

\* Variant: a missing monitor treated as a startup error.
AfterMonitorStrict(r) == IF r.tag = "some" THEN "compute" ELSE "aborted"

\* if let Some(monitor) = window.current_monitor()? (lines 62, 80-82).
AfterMonitor(r) ==
    IF r.tag = "err" THEN "aborted"
    ELSE IF r.tag = "some" THEN "compute" ELSE "setup_ok"

\* Overflow in lines 72-73 panics when the build checks it, wraps otherwise.
AfterCompute(p) ==
    IF p.overflowed /\ overflowChecks THEN "aborted" ELSE "set_position"

\* Variant: the result of set_position dropped instead of propagated.
AfterSetPositionIgnored(ok) == "setup_ok"

\* window.set_position(..)? (lines 76-79).
AfterSetPosition(ok) == IF ok THEN "setup_ok" ELSE "aborted"

\* A panic or an Err out of setup ends the process (lines 84-85).
OutcomeAt(next) == IF next = "aborted" THEN "failed" ELSE outcome

----------------------------------------------------------------------------
(* Panel settings *)

\* tauri_panel! { panel!(SignosPanel { config: {..} }) } (lines 6-14)
SignosPanel == [can_become_key_window |-> TRUE, is_floating_panel |-> TRUE]

PanelStyleMask == {"nonactivating_panel"}

\* Variant: can_join_all_spaces left out.
PanelCollectionBehaviorOneSpace == {"full_screen_auxiliary"}

PanelCollectionBehavior == {"full_screen_auxiliary", "can_join_all_spaces"}

----------------------------------------------------------------------------
Init ==
    /\ macos \in BOOLEAN
    /\ overflowChecks \in BOOLEAN
    /\ primaryMonitor \in PrimarySizes
    /\ pc = "plugins"
    /\ plugins = {}
    /\ calls = <<>>
    /\ activationPolicy = "Regular"
    /\ windowKind = "window"
    /\ panelConfig = {}
    /\ panelLevel = {}
    /\ styleMask = {}
    /\ collectionBehavior = {}
    /\ monitor = NotQueried
    /\ arith = {}
    /\ xy = {}
    /\ position = {}
    /\ error = "none"
    /\ outcome = "starting"

\* lines 18-21
RegisterPlugins ==
    /\ pc = "plugins"
    /\ plugins' = plugins \cup {"opener", "process", "fs"}
    /\ pc' = AfterPlugins
    /\ UNCHANGED <<macos, overflowChecks, primaryMonitor, calls,
                   activationPolicy, windowKind, panelConfig, panelLevel, styleMask,
                   collectionBehavior, monitor, arith, xy, position, error,
                   outcome>>

\* line 26
RegisterNsPanel ==
    /\ pc = "nspanel_init"
    /\ plugins' = plugins \cup {"nspanel"}
    /\ calls' = Append(calls, "nspanel_init")
    /\ pc' = SetupEntry
    /\ UNCHANGED <<macos, overflowChecks, primaryMonitor, activationPolicy,
                   windowKind, panelConfig, panelLevel, styleMask, collectionBehavior,
                   monitor, arith, xy, position, error, outcome>>

\* line 34
SetActivationPolicy ==
    /\ pc = "set_activation_policy"
    /\ activationPolicy' = "Accessory"
    /\ calls' = Append(calls, "set_activation_policy")
    /\ pc' = "get_webview_window"
    /\ UNCHANGED <<macos, overflowChecks, primaryMonitor, plugins, windowKind, panelConfig,
                   panelLevel, styleMask, collectionBehavior, monitor, arith,
                   xy, position, error, outcome>>

\* line 37
GetWebviewWindow ==
    /\ pc = "get_webview_window"
    /\ \E found \in BOOLEAN :
        /\ pc' = AfterWindow(found)
        /\ outcome' = OutcomeAt(AfterWindow(found))
        /\ error' = IF found THEN error ELSE "missing_window"
    /\ calls' = Append(calls, "get_webview_window")
    /\ UNCHANGED <<macos, overflowChecks, primaryMonitor, plugins,
                   activationPolicy, windowKind, panelConfig, panelLevel, styleMask,
                   collectionBehavior, monitor, arith, xy, position>>

\* line 42
ToPanel ==
    /\ pc = "to_panel"
    /\ \E ok \in BOOLEAN :
        /\ windowKind' = IF ok THEN "panel" ELSE windowKind
        /\ panelConfig' = IF ok THEN {SignosPanel} ELSE panelConfig
        /\ pc' = AfterToPanel(ok)
        /\ outcome' = OutcomeAt(AfterToPanel(ok))
        /\ error' = IF ok THEN error ELSE "panel_conversion"
    /\ calls' = Append(calls, "to_panel")
    /\ UNCHANGED <<macos, overflowChecks, primaryMonitor, plugins,
                   activationPolicy, panelLevel, styleMask, collectionBehavior,
                   monitor, arith, xy, position>>

\* line 45
SetLevel ==
    /\ pc = "set_level"
    /\ panelLevel' = {"Floating"}
    /\ calls' = Append(calls, "set_level")
    /\ pc' = "set_style_mask"
    /\ UNCHANGED <<macos, overflowChecks, primaryMonitor, plugins,
                   activationPolicy, windowKind, panelConfig, styleMask, collectionBehavior,
                   monitor, arith, xy, position, error, outcome>>

\* line 48
SetStyleMask ==
    /\ pc = "set_style_mask"
    /\ styleMask' = PanelStyleMask
    /\ calls' = Append(calls, "set_style_mask")
    /\ pc' = "set_collection_behavior"
    /\ UNCHANGED <<macos, overflowChecks, primaryMonitor, plugins,
                   activationPolicy, windowKind, panelConfig, panelLevel, collectionBehavior,
                   monitor, arith, xy, position, error, outcome>>

\* lines 53-58
SetCollectionBehavior ==
    /\ pc = "set_collection_behavior"
    /\ collectionBehavior' = PanelCollectionBehavior
    /\ calls' = Append(calls, "set_collection_behavior")
    /\ pc' = "current_monitor"
    /\ UNCHANGED <<macos, overflowChecks, primaryMonitor, plugins,
                   activationPolicy, windowKind, panelConfig, panelLevel, styleMask,
                   monitor, arith, xy, position, error, outcome>>

\* line 62
CurrentMonitor ==
    /\ pc = "current_monitor"
    /\ \E r \in MonitorResults :
        /\ monitor' = r
        /\ pc' = AfterMonitor(r)
        /\ outcome' = OutcomeAt(AfterMonitor(r))
        /\ error' = IF r.tag = "err" THEN "monitor_query" ELSE error
    /\ calls' = Append(calls, "current_monitor")
    /\ UNCHANGED <<macos, overflowChecks, primaryMonitor, plugins,
                   activationPolicy, windowKind, panelConfig, panelLevel, styleMask,
                   collectionBehavior, arith, xy, position>>

\* lines 63-73
ComputePosition ==
    /\ pc = "compute"
    /\ LET s == TheSize(monitor)
           p == Placement(s.width, s.height)
       IN  /\ arith' = {[cast_wrapped |-> p.cast_wrapped,
                         overflowed |-> p.overflowed]}
           /\ pc' = AfterCompute(p)
           /\ xy' = IF AfterCompute(p) = "aborted" THEN xy
                    ELSE {[x |-> p.x, y |-> p.y]}
           /\ outcome' = OutcomeAt(AfterCompute(p))
           /\ error' = IF AfterCompute(p) = "aborted"
                       THEN "arithmetic_overflow" ELSE error
    /\ UNCHANGED <<macos, overflowChecks, primaryMonitor, plugins, calls,
                   activationPolicy, windowKind, panelConfig, panelLevel, styleMask,
                   collectionBehavior, monitor, position>>

\* lines 76-79
SetPosition ==
    /\ pc = "set_position"
    /\ \E ok \in BOOLEAN :
        /\ position' = IF ok THEN xy ELSE position
        /\ pc' = AfterSetPosition(ok)
        /\ outcome' = OutcomeAt(AfterSetPosition(ok))
        /\ error' = IF ok THEN error ELSE "set_position"
    /\ calls' = Append(calls, "set_position")
    /\ UNCHANGED <<macos, overflowChecks, primaryMonitor, plugins,
                   activationPolicy, windowKind, panelConfig, panelLevel, styleMask,
                   collectionBehavior, monitor, arith, xy>>

\* lines 82-85: setup returned Ok(()), the event loop starts
StartEventLoop ==
    /\ pc = "setup_ok"
    /\ outcome' = "running"
    /\ calls' = Append(calls, "run_event_loop")
    /\ pc' = "event_loop"
    /\ UNCHANGED <<macos, overflowChecks, primaryMonitor, plugins,
                   activationPolicy, windowKind, panelConfig, panelLevel, styleMask,
                   collectionBehavior, monitor, arith, xy, position, error>>

Next ==
    \/ RegisterPlugins
    \/ RegisterNsPanel
    \/ SetActivationPolicy
    \/ GetWebviewWindow
    \/ ToPanel
    \/ SetLevel
    \/ SetStyleMask
    \/ SetCollectionBehavior
    \/ CurrentMonitor
    \/ ComputePosition
    \/ SetPosition
    \/ StartEventLoop

Spec == Init /\ [][Next]_vars

----------------------------------------------------------------------------
(* Properties *)

Called(c) == \E i \in 1..Len(calls) : calls[i] = c

Count(c) == Cardinality({ i \in 1..Len(calls) : calls[i] = c })

IndexOf(c) == CHOOSE i \in 1..Len(calls) : calls[i] = c

Reported == monitor.tag = "some"

\* screen_width - 290 - 200 and screen_height - 380 + 30 over the integers.
ExactX == WSub(WSub(TheSize(monitor).width, W(290)), W(200))
ExactY == WAdd(WSub(TheSize(monitor).height, W(380)), W(30))

\* C1 as stated: for every reported monitor size, the position passed to
\* set_position is exactly (screen_width - 290 - 200, screen_height - 380 + 30),
\* negative results passed through unchanged.
C1_AsStated ==
    Called("set_position") => xy = {[x |-> ExactX, y |-> ExactY]}

\* C1 amended: whenever set_position is called, its argument is
\* (screen_width - 490, screen_height - 350) reduced into the i32 range; it is
\* exactly that pair, negative or not and never clamped, whenever the pair
\* fits in i32 (width <= 2^31 + 489 and height <= 2^31 + 349), and a successful
\* call leaves the window at that position.
C1_PositionPassed ==
    Called("set_position") =>
        /\ xy = {[x |-> WrapI32(ExactX), y |-> WrapI32(ExactY)]}
        /\ (InI32(ExactX) /\ InI32(ExactY)) => xy = {[x |-> ExactX, y |-> ExactY]}
        /\ error = "none" => position = xy

\* A 100x100 monitor has put the window at (-390, -250).
C1_Witness ==
    /\ Called("set_position")
    /\ Reported
    /\ TheSize(monitor) = [width |-> W(100), height |-> W(100)]
    /\ position = {[x |-> W(-390), y |-> W(-250)]}

\* C2 as stated: for every u32 width >= 490 and height >= 350, x = width - 490
\* and y = height - 350, both fit in i32, and neither the cast nor the
\* arithmetic wraps or overflows.
C2_AsStated ==
    (/\ arith # {}
     /\ WLeq(W(490), TheSize(monitor).width)
     /\ WLeq(W(350), TheSize(monitor).height))
    => /\ arith = {[cast_wrapped |-> FALSE, overflowed |-> FALSE]}
       /\ xy = {[x |-> WSub(TheSize(monitor).width, W(490)),
                 y |-> WSub(TheSize(monitor).height, W(350))]}
       /\ \A p \in xy : InI32(p.x) /\ InI32(p.y)

\* C2 amended: for 490 <= width <= 2^31 - 1 and 350 <= height <= 2^31 - 1,
\* x = width - 490 and y = height - 350, both fit in i32, and neither the cast
\* nor the arithmetic wraps or overflows.
C2_NoWrapInRange ==
    (/\ arith # {}
     /\ WLeq(W(490), TheSize(monitor).width)
     /\ WLeq(TheSize(monitor).width, I32Max)
     /\ WLeq(W(350), TheSize(monitor).height)
     /\ WLeq(TheSize(monitor).height, I32Max))
    => /\ arith = {[cast_wrapped |-> FALSE, overflowed |-> FALSE]}
       /\ error = "none" \/ error = "set_position"
       /\ xy = {[x |-> WSub(TheSize(monitor).width, W(490)),
                 y |-> WSub(TheSize(monitor).height, W(350))]}
       /\ \A p \in xy : InI32(p.x) /\ InI32(p.y)

\* The largest size of the range has been placed: 2^31 - 1 in both dimensions.
C2_Witness ==
    /\ arith # {}
    /\ TheSize(monitor) = [width |-> I32Max, height |-> I32Max]
    /\ xy = {[x |-> WSub(I32Max, W(490)), y |-> WSub(I32Max, W(350))]}

\* C3: when the monitor query succeeds with no monitor, set_position is never
\* called, the window keeps its configured position, setup does not fail and
\* the only step left is the start of the event loop.
C3_NoMonitorIsNoOp ==
    monitor.tag = "none" =>
        /\ ~Called("set_position")
        /\ arith = {} /\ xy = {} /\ position = {}
        /\ error = "none" /\ outcome # "failed"
        /\ pc \in {"setup_ok", "event_loop"}
        /\ pc = "setup_ok" => ENABLED StartEventLoop
        /\ pc = "event_loop" => outcome = "running"

\* No monitor was reported and the event loop runs.
C3_Witness ==
    /\ monitor.tag = "none"
    /\ outcome = "running"
    /\ Called("run_event_loop")

PanelCalls ==
    {"nspanel_init", "set_activation_policy", "to_panel", "set_level",
     "set_style_mask", "set_collection_behavior"}

SelectorCalls == PanelCalls \ {"nspanel_init"}

PanelApplied ==
    /\ activationPolicy = "Accessory"
    /\ windowKind = "panel"
    /\ panelConfig = {SignosPanel}
    /\ panelLevel = {"Floating"}
    /\ "nonactivating_panel" \in styleMask
    /\ {"full_screen_auxiliary", "can_join_all_spaces"} \subseteq collectionBehavior

NothingApplied ==
    /\ activationPolicy = "Regular"
    /\ windowKind = "window"
    /\ panelConfig = {}
    /\ panelLevel = {}
    /\ styleMask = {}
    /\ collectionBehavior = {}
    /\ position = {}

\* C4: on a build without panel support none of the panel plugin registration,
\* setActivationPolicy, convertToPanel, setPanelLevel, setPanelStyleMask and
\* setCollectionBehavior is ever invoked, in successful and failing runs alike;
\* the only calls are the window lookup, the monitor query, set_position and
\* the start of the event loop.
C4_NoPanelCalls ==
    ~macos =>
        /\ \A i \in 1..Len(calls) :
              /\ calls[i] \notin PanelCalls
              /\ calls[i] \in {"get_webview_window", "current_monitor",
                               "set_position", "run_event_loop"}
        /\ "nspanel" \notin plugins
        /\ activationPolicy = "Regular"
        /\ windowKind = "window" /\ panelConfig = {}
        /\ panelLevel = {} /\ styleMask = {} /\ collectionBehavior = {}

\* A build without panel support has placed its window and runs.
C4_Witness ==
    /\ ~macos
    /\ Called("set_position")
    /\ outcome = "running"

\* C5: on the panel platform the monitor query and set_position happen only
\* after the activation policy, the panel conversion and the panel's level,
\* style mask and collection behavior; geometry is untouched before that.
C5_SelectorBeforePlacement ==
    (macos /\ (Called("current_monitor") \/ Called("set_position")
               \/ monitor # NotQueried \/ xy # {} \/ position # {}))
    => /\ PanelApplied
       /\ \A c \in SelectorCalls :
             /\ Called(c)
             /\ \A i \in 1..Len(calls) :
                   calls[i] \in {"current_monitor", "set_position"}
                       => IndexOf(c) < i

\* The panel platform has moved its window.
C5_Witness ==
    /\ macos
    /\ Called("set_position")
    /\ position # {}

\* C6: every startup error (window lookup, panel conversion, monitor query,
\* set_position) aborts: the failing call is the last one made, no step can
\* follow, the event loop is never started and the process has failed; after
\* a failed panel conversion the window is neither a panel nor positioned.
C6_ErrorsAbort ==
    /\ outcome = "failed" <=> error # "none"
    /\ error # "none" =>
          /\ pc = "aborted"
          /\ outcome = "failed"
          /\ ~Called("run_event_loop")
          /\ ~ENABLED Next
    /\ error = "missing_window" =>
          /\ calls[Len(calls)] = "get_webview_window"
          /\ monitor = NotQueried /\ position = {}
    /\ error = "panel_conversion" =>
          /\ calls[Len(calls)] = "to_panel"
          /\ windowKind = "window" /\ panelLevel = {} /\ styleMask = {}
          /\ collectionBehavior = {}
          /\ monitor = NotQueried /\ position = {}
    /\ error = "monitor_query" =>
          /\ calls[Len(calls)] = "current_monitor"
          /\ xy = {} /\ position = {}
    /\ error = "set_position" =>
          /\ calls[Len(calls)] = "set_position"
          /\ position = {}

\* The panel conversion has failed.
C6_Witness ==
    /\ error = "panel_conversion"
    /\ pc = "aborted"
    /\ Called("to_panel")

\* C7 as stated: a run either has every configuration step applied and the
\* application started, or has not started and none of the side effects is
\* in place at the abort.
C7_AsStated ==
    /\ pc = "event_loop" =>
          /\ macos => PanelApplied
          /\ Reported => (xy # {} /\ position = xy)
    /\ pc = "aborted" => NothingApplied

\* C7 amended: a run either has every configuration step of its build applied
\* (the placement when a monitor was reported) and the application started,
\* or the process has not started; at an abort exactly the steps that ran
\* before the failing one are in place: they are not undone.
C7_AllOrAbort ==
    /\ pc = "event_loop" =>
          /\ outcome = "running"
          /\ macos => PanelApplied
          /\ Reported => (xy # {} /\ position = xy)
    /\ pc = "aborted" =>
          /\ outcome = "failed"
          /\ ~Called("run_event_loop")
          /\ activationPolicy = "Accessory" <=> Called("set_activation_policy")
          /\ windowKind = "panel"
                <=> (Called("to_panel") /\ error # "panel_conversion")
          /\ panelLevel # {} <=> Called("set_level")
          /\ styleMask # {} <=> Called("set_style_mask")
          /\ collectionBehavior # {} <=> Called("set_collection_behavior")
          /\ position = {}

\* set_position has failed on a window that is already an accessory panel.
C7_Witness ==
    /\ pc = "aborted"
    /\ error = "set_position"
    /\ PanelApplied

C9_AsStated ==
    arith # {} => TheSize(monitor) = primaryMonitor

\* C10: after set_position the window's right edge (x + 290) is 20 pixels left
\* of screen_width and its bottom edge (y + 380) is 20 pixels above
\* screen_height (taken where nothing wrapped).
C10_AsStated ==
    (Called("set_position")
     /\ arith = {[cast_wrapped |-> FALSE, overflowed |-> FALSE]})
    => \A p \in xy :
          /\ WAdd(p.x, W(290)) = WSub(TheSize(monitor).width, W(20))
          /\ WAdd(p.y, W(380)) = WSub(TheSize(monitor).height, W(20))

=============================================================================
